---- MODULE Spec2Model ----
(***************************************************************************)
(* Model of the scoring and rewrite core of service_generate_content:      *)
(*   - ContentRewriter.rewrite_content      (app/ai/content_rewriter.py)   *)
(*   - ContentGenerator._calculate_final_score                             *)
(*                                     (app/content/content_generator.py)  *)
(*   - StatelessContentProcessor batch operations                          *)
(*                                  (app/content/stateless_processor.py)   *)
(*     and the endpoints that call them          (app/api/v1/batch.py)     *)
(*   - SEOOptimizer.calculate_seo_score / suggest_improvements             *)
(*                                             (app/ai/seo_optimizer.py)   *)
(*   - SimilarityChecker.calculate_similarity                              *)
(*                                        (app/ai/similarity_checker.py)   *)
(*   - RelevanceScorer.calculate_relevance                                 *)
(*                                   (app/content/relevance_scorer.py)     *)
(*                                                                         *)
(* Number representation (Python floats are modelled as exact decimals):   *)
(*   "milli" = units of 1/1000   (relevance, quality, SEO scores)          *)
(*   "E4"    = units of 1/10000  (similarity scores)                       *)
(*   "E5"    = units of 1/100000 (composite final scores)                  *)
(***************************************************************************)
EXTENDS Integers, Sequences, FiniteSets, TLC

VARIABLES
    \* ---- ContentRewriter instance (content_rewriter.py:14-26) ----
    anthropic_client,   \* TRUE iff settings.ANTHROPIC_API_KEY was set at construction
    openai_client,      \* TRUE iff settings.OPENAI_API_KEY was set at construction
    \* ---- one rewrite_content call (content_rewriter.py:28-96) ----
    rw_pc,              \* "idle" | "first" | "retry" | "done"
    original_content,   \* the argument original_content
    attempts,           \* values returned by the external capability, in order
    prompts,            \* prompts handed to the capability: [kind, content]
    simArgs,            \* argument pairs of the calculate_similarity calls, in order
    similarity_score,   \* local similarity_score (E4), -1 while unset
    outcome,            \* "none" | "returned" | "raised"
    result,             \* the returned dict
    rw_calls,           \* rewrite_content calls started on this instance
    ext_total,          \* external invocations made by this instance so far
    \* ---- calls of ContentGenerator._calculate_final_score ----
    score_in,           \* arguments of the latest call
    score_out,          \* its return value (E5), -1 before the first call
    prev_in,            \* arguments of the call before it
    prev_out,           \* its return value (E5), -1 if there was none
    \* ---- StatelessContentProcessor (stateless_processor.py) ----
    rewriterApi,        \* keywords self.content_rewriter.rewrite_content accepts
    relevanceApi,       \* "async" | "sync": what calculate_relevance returns when called
    b_pc,               \* "idle" | "source" | "item" | "done"
    b_op,               \* "articles" | "news" | "featured"
    b_limit,            \* argument limit of the batch operation
    b_min_score,        \* argument min_score (E5)
    b_hours_ago,        \* argument hours_ago of process_batch_news
    cats_left,          \* process_batch_featured: categories still to process
    inner_limit,        \* limit of the running process_batch_articles call
    src_left,           \* sources the running loop has not reached yet
    items_left,         \* items of the current scraped_content not processed yet
    processed,          \* local processed of the running loop (lines 64, 121)
    scraped,            \* items scraped so far in this operation
    all_articles,       \* all_articles / recent_articles of the running loop
    featured_articles,  \* featured_articles of process_batch_featured
    returned,           \* list returned by the last finished batch operation
    sources_ok,         \* TRUE iff some source's scrape returned in this operation
    scored,             \* TRUE iff _process_single_article returned a record in it
    response,           \* what the endpoint of api/v1/batch.py answered
    timed_out,          \* TRUE iff NESTJS_API_TIMEOUT elapsed during this operation
    late_rewrite,       \* TRUE iff a rewrite call was made after it had elapsed
    capability_ok,      \* TRUE iff the rewrite capability served the last processed item
    accepted_count,     \* items of this operation that passed the gate of line 68/125
    \* ---- SEOOptimizer.calculate_seo_score / suggest_improvements ----
    seo_pc,             \* "idle" | "new" | "scored" | "suggested"
    seo_in,             \* the arguments title, content, meta_description, keywords
    seo_outcome,        \* calculate_seo_score: "none" | "returned" | "raised"
    seo_result,         \* its return value (milli), -1 if there is none
    suggest_outcome,    \* suggest_improvements: "none" | "returned" | "raised"
    suggestions,        \* the messages it returned
    \* ---- one SimilarityChecker.calculate_similarity call ----
    sim_pc,             \* "idle" | "new" | "done"
    sim_text1,          \* the argument text1
    sim_text2,          \* the argument text2
    sim_fault,          \* the component whose library call raises, or "none"
    sim_components,     \* the three component values logged at lines 51-55
    sim_outcome,        \* "none" | "returned" | "raised"
    sim_result,         \* the return value (E4), -1 if there is none
    \* ---- one RelevanceScorer.calculate_relevance call ----
    rel_pc,             \* "idle" | "new" | "done"
    rel_in,             \* the arguments title, content, category, published_date
    rel_components,     \* the five sub-scores logged at lines 137-142 (milli)
    rel_outcome,        \* "none" | "returned" | "raised"
    rel_result,         \* the return value (E5), -1 if there is none
    \* ---- ContentGenerator: the Article table and the runs working on it ----
    article_table,      \* the rows of Article, in insertion order
    g_pc,               \* per run: "idle" | "rewrite" | "title"
    g_item,             \* per run: source_url of the item being processed
    g_relevance,        \* per run: relevance_score of that item (milli)
    g_rewrite,          \* per run: the rewrite_result of that item
    rewrite_calls,      \* observation: the rewrite_content invocations made
    rejected,           \* observation: the reasons items were dropped for
    \* ---- ContentGenerator: the Source rows and one run over them ----
    sources,            \* id -> [scraping_errors, is_active]
    s_pc,               \* "idle" | "scraping"
    s_pending,          \* the sources the run still has to scrape
    s_selected,         \* observation: the sources the last run selected
    s_last,             \* observation: id -> outcome of its last scrape
    s_streak            \* observation: id -> failures since the last success

rwVars == <<anthropic_client, openai_client, rw_pc, original_content, attempts,
            prompts, simArgs, similarity_score, outcome, result, rw_calls,
            ext_total>>

scoreVars == <<score_in, score_out, prev_in, prev_out>>

batchVars == <<rewriterApi, relevanceApi, b_pc, b_op, b_limit, b_min_score,
               b_hours_ago, cats_left, inner_limit, src_left, items_left,
               processed, scraped, all_articles, featured_articles, returned,
               sources_ok, scored, response, timed_out, late_rewrite,
               capability_ok, accepted_count>>

seoVars == <<seo_pc, seo_in, seo_outcome, seo_result, suggest_outcome,
             suggestions>>

simcVars == <<sim_pc, sim_text1, sim_text2, sim_fault, sim_components,
              sim_outcome, sim_result>>

relVars == <<rel_pc, rel_in, rel_components, rel_outcome, rel_result>>

genVars == <<article_table, g_pc, g_item, g_relevance, g_rewrite, rewrite_calls,
             rejected>>

srcVars == <<sources, s_pc, s_pending, s_selected, s_last, s_streak>>

dbVars == <<genVars, srcVars>>

fnVars == <<seoVars, simcVars, relVars, dbVars>>

vars == <<rwVars, scoreVars, batchVars, fnVars>>

(***************************************************************************)
(* Bounds                                                                  *)
(***************************************************************************)
MaxRewriteCalls == 2
\* items one batch operation scrapes in total
MaxScraped == 3
\* items one scraper.scrape() call returns
MaxPerSource == 2
\* len(settings.DEFAULT_SOURCES) and sources per category of the configuration
NumCategories == 2
SourcesPerCategory == 2
\* rows of the Article table
MaxArticles == 2
\* consecutive failed scrapes of one source
MaxFailures == 6

(***************************************************************************)
(* Configuration                                                           *)
(***************************************************************************)
\* settings.REWRITE_SIMILARITY_THRESHOLD = 0.3, in E4 units
REWRITE_SIMILARITY_THRESHOLD == 3000

Min(a, b) == IF a <= b THEN a ELSE b
Max(a, b) == IF a >= b THEN a ELSE b

(***************************************************************************)
(* Texts.  A small corpus stands for the strings the program handles; the  *)
(* three library metrics of each pair are tabulated (milli).               *)
(***************************************************************************)
None == "None"
EmptyText == ""
Originals == {"article", "partial"}
\* what the external capability can answer: a text, or an empty answer
LlmTexts == {"copy", "partial", "fresh", EmptyText}

\* further texts the similarity checker is called with
AllTexts == Originals \cup LlmTexts \cup {"single", "short", None}

\* difflib.SequenceMatcher(None, a, b).ratio() of the preprocessed texts
\* (1.0 for equal texts, the two empty ones included)
SequenceRatio(t1, t2) ==
    IF t1 = t2 THEN 1000
    ELSE IF EmptyText \in {t1, t2} THEN 0
    ELSE IF {t1, t2} = {"article", "copy"} THEN 900
    ELSE IF {t1, t2} = {"article", "partial"} THEN 350
    ELSE IF {t1, t2} = {"article", "single"} THEN 700
    ELSE IF {t1, t2} = {"partial", "fresh"} THEN 600
    ELSE IF {t1, t2} = {"copy", "partial"} THEN 500
    ELSE 200

\* cosine_similarity of the TfidfVectorizer rows of the two texts;
\* -1 stands for the ValueError fit_transform raises on an empty vocabulary
TfidfCosine(t1, t2) ==
    IF t1 = EmptyText /\ t2 = EmptyText THEN -1
    ELSE IF EmptyText \in {t1, t2} THEN 0
    ELSE IF t1 = t2 THEN 1000
    ELSE IF {t1, t2} = {"article", "copy"} THEN 950
    ELSE IF {t1, t2} = {"article", "partial"} THEN 300
    ELSE IF {t1, t2} = {"article", "single"} THEN 750
    ELSE IF {t1, t2} = {"partial", "fresh"} THEN 700
    ELSE IF {t1, t2} = {"copy", "partial"} THEN 400
    ELSE 100

\* re.split(r'[.!?]+', text), each piece stripped: the sentences of the
\* corpus texts.  s1, s2, s3 are different long sentences, s1x is s1 with a
\* word changed, m1 is a sentence of 15 characters, w1 one of 8.
SplitSentences(text) ==
    IF text = "article" THEN <<"s1", "s2">>
    ELSE IF text = "copy" THEN <<"s1x", "s2">>
    ELSE IF text = "partial" THEN <<"s1", "s3">>
    ELSE IF text = "fresh" THEN <<"s3", "m1">>
    ELSE IF text = "single" THEN <<"s1">>
    ELSE IF text = "short" THEN <<"m1", "w1">>
    ELSE <<>>

\* len(sentence)
SentenceLength(sentence) ==
    IF sentence = "s1" THEN 60
    ELSE IF sentence = "s1x" THEN 62
    ELSE IF sentence = "s2" THEN 45
    ELSE IF sentence = "s3" THEN 21
    ELSE IF sentence = "m1" THEN 15
    ELSE 8

\* SequenceMatcher(None, sent1.lower(), sent2.lower()).ratio(), in milli
SentenceRatio(sent1, sent2) ==
    IF sent1 = sent2 THEN 1000
    ELSE IF {sent1, sent2} = {"s1", "s1x"} THEN 900
    ELSE 300

\* lines 139-153
_extract_sentences(text) ==
    SelectSeq(SplitSentences(text), LAMBDA sentence : SentenceLength(sentence) > 10)

\* a component in which an exception is raised (fault names the component
\* whose library call raised) returns 0.0 from its except branch
Faults == {"none", "sequence", "tfidf", "phrase"}

\* lines 75-83
_calculate_sequence_similarity(t1, t2, fault) ==
    IF fault = "sequence" THEN 0 ELSE SequenceRatio(t1, t2)

\* lines 85-103
_calculate_tfidf_similarity_unguarded(t1, t2, fault) == TfidfCosine(t1, t2)
_calculate_tfidf_similarity(t1, t2, fault) ==
    IF fault = "tfidf" \/ TfidfCosine(t1, t2) < 0 THEN 0
    ELSE TfidfCosine(t1, t2)

\* lines 105-137: the share, among the pairs of sentences that are both
\* longer than 20 characters, of the pairs whose ratio exceeds 0.8
_calculate_phrase_similarity(text1, text2, fault) ==
    IF fault = "phrase" THEN 0
    ELSE LET sentences1 == _extract_sentences(text1)
             sentences2 == _extract_sentences(text2)
             compared == { p \in (1..Len(sentences1)) \X (1..Len(sentences2)) :
                             /\ SentenceLength(sentences1[p[1]]) > 20
                             /\ SentenceLength(sentences2[p[2]]) > 20 }
             similar == { p \in compared :
                             SentenceRatio(sentences1[p[1]], sentences2[p[2]]) > 800 }
         IN  IF sentences1 = <<>> \/ sentences2 = <<>> THEN 0
             ELSE IF compared = {} THEN 0
             ELSE (Cardinality(similar) * 1000) \div Cardinality(compared)

\* lines 45-49: milli components, E4 result
WeightedSimilarityEqualThirds(sequence_similarity, tfidf_similarity, phrase_similarity) ==
    (sequence_similarity * 10 + tfidf_similarity * 10 + phrase_similarity * 10) \div 3
WeightedSimilarity(sequence_similarity, tfidf_similarity, phrase_similarity) ==
    sequence_similarity * 3 + tfidf_similarity * 4 + phrase_similarity * 3

\* SimilarityChecker.calculate_similarity, result in E4.  A None argument
\* makes _preprocess_text raise AttributeError, which the outer except
\* turns into the neutral 0.5.
SimilarityUnder(text1, text2, fault) ==
    IF text1 = None \/ text2 = None THEN 5000
    ELSE WeightedSimilarity(_calculate_sequence_similarity(text1, text2, fault),
                            _calculate_tfidf_similarity(text1, text2, fault),
                            _calculate_phrase_similarity(text1, text2, fault))

calculate_similarity(text1, text2) == SimilarityUnder(text1, text2, "none")

(***************************************************************************)
(* ContentRewriter                                                         *)
(***************************************************************************)
NoResult == [rewritten_content |-> None, similarity_score |-> -1,
             persona_used |-> None, word_count |-> -1, is_original |-> FALSE]

\* len(rewritten_content.split()) of the corpus texts
WordCount(t) ==
    IF t = "copy" THEN 600
    ELSE IF t = "partial" THEN 450
    ELSE IF t = "fresh" THEN 250
    ELSE IF t = "article" THEN 600
    ELSE 0

\* bool(rewritten_content): None and "" are falsy
Truthy(t) == t # None /\ t # EmptyText

\* content_rewriter.py:70
NeedsRetryLoose(sim) == sim >= REWRITE_SIMILARITY_THRESHOLD
NeedsRetry(sim) == sim > REWRITE_SIMILARITY_THRESHOLD

\* content_rewriter.py:91
IsOriginal(sim) == sim < REWRITE_SIMILARITY_THRESHOLD

\* content_rewriter.py:72-74 and 82-84: the text the retry works from
RetryBaselineChained(original, first) == first
RetryBaseline(original, first) == original

\* content_rewriter.py:86-92
MakeResultStale(text, sim, persona) ==
    [rewritten_content |-> text, similarity_score |-> sim,
     persona_used |-> persona, word_count |-> WordCount(text),
     is_original |-> TRUE]
MakeResult(text, sim, persona) ==
    [rewritten_content |-> text, similarity_score |-> sim,
     persona_used |-> persona, word_count |-> WordCount(text),
     is_original |-> IsOriginal(sim)]

\* content_rewriter.py:14-26
RewriterInit ==
    /\ anthropic_client \in BOOLEAN
    /\ openai_client \in BOOLEAN
    /\ rw_pc = "idle"
    /\ original_content = None
    /\ attempts = <<>>
    /\ prompts = <<>>
    /\ simArgs = <<>>
    /\ similarity_score = -1
    /\ outcome = "none"
    /\ result = NoResult
    /\ rw_calls = 0
    /\ ext_total = 0

\* content_rewriter.py:45-59: entry of rewrite_content up to the first await.
\* Without any client the ValueError of line 59 is re-raised by line 96.
RewriteCall ==
    /\ rw_pc \in {"idle", "done"}
    /\ rw_calls < MaxRewriteCalls
    /\ \E oc \in Originals :
        /\ original_content' = oc
        /\ rw_calls' = rw_calls + 1
        /\ attempts' = <<>>
        /\ simArgs' = <<>>
        /\ similarity_score' = -1
        /\ result' = NoResult
        /\ IF anthropic_client \/ openai_client
           THEN /\ prompts' = <<[kind |-> "rewrite", content |-> oc]>>
                /\ rw_pc' = "first"
                /\ outcome' = "none"
           ELSE /\ prompts' = <<[kind |-> "rewrite", content |-> oc]>>
                /\ rw_pc' = "done"
                /\ outcome' = "raised"
    /\ UNCHANGED <<anthropic_client, openai_client, ext_total>>
    /\ UNCHANGED <<scoreVars, batchVars, fnVars>>

\* content_rewriter.py:54-84: the first external call completes.  answer is
\* what _rewrite_with_anthropic/_rewrite_with_openai returns: a text, or
\* None when anything in the provider call raised (lines 181-183, 208-210).
FirstAttempt ==
    /\ rw_pc = "first"
    /\ \E answer \in LlmTexts \cup {None} :
        /\ attempts' = Append(attempts, answer)
        /\ ext_total' = ext_total + 1
        /\ IF ~Truthy(answer)
           THEN \* line 61-62: raise ValueError, re-raised at line 96
                /\ rw_pc' = "done"
                /\ outcome' = "raised"
                /\ UNCHANGED <<simArgs, similarity_score, result, prompts>>
           ELSE LET sim == calculate_similarity(original_content, answer) IN
                /\ simArgs' = Append(simArgs, <<original_content, answer>>)
                /\ similarity_score' = sim
                /\ IF NeedsRetry(sim)
                   THEN /\ prompts' = Append(prompts,
                               [kind |-> "aggressive",
                                content |-> RetryBaseline(original_content, answer)])
                        /\ rw_pc' = "retry"
                        /\ UNCHANGED <<outcome, result>>
                   ELSE /\ rw_pc' = "done"
                        /\ outcome' = "returned"
                        /\ result' = MakeResult(answer, sim, "games")
                        /\ UNCHANGED prompts
    /\ UNCHANGED <<anthropic_client, openai_client, original_content, rw_calls>>
    /\ UNCHANGED <<scoreVars, batchVars, fnVars>>

\* content_rewriter.py:76-92: the second external call completes.  A None
\* answer is scored 0.5 by calculate_similarity and then line 90
\* (None.split()) raises AttributeError, re-raised at line 96.
RetryAttempt ==
    /\ rw_pc = "retry"
    /\ \E answer \in LlmTexts \cup {None} :
        LET base == RetryBaseline(original_content, attempts[1])
            sim == calculate_similarity(base, answer) IN
        /\ attempts' = Append(attempts, answer)
        /\ ext_total' = ext_total + 1
        /\ simArgs' = Append(simArgs, <<base, answer>>)
        /\ similarity_score' = sim
        /\ rw_pc' = "done"
        /\ IF answer = None
           THEN /\ outcome' = "raised"
                /\ UNCHANGED result
           ELSE /\ outcome' = "returned"
                /\ result' = MakeResult(answer, sim, "games")
    /\ UNCHANGED <<anthropic_client, openai_client, original_content, prompts,
                   rw_calls>>
    /\ UNCHANGED <<scoreVars, batchVars, fnVars>>

RewriterNext == RewriteCall \/ FirstAttempt \/ RetryAttempt

(***************************************************************************)
(* ContentGenerator._calculate_final_score (content_generator.py:279-310)  *)
(***************************************************************************)
\* line 294: min(word_count / 500, 1.0) * 0.7 + 0.3, in E4
QualityFromWordCount(word_count) == Min(2 * word_count, 1000) * 7 + 3000

\* line 297: 1.0 - similarity_score, in E4
OriginalityInverted(similarity) == similarity
Originality(similarity) == 10000 - similarity

\* lines 303-310, result in E5
_calculate_final_score(relevance_score, word_count, similarity, seo_score) ==
    Min(relevance_score * 40
        + QualityFromWordCount(word_count) * 3
        + seo_score * 20
        + Originality(similarity) * 1,
        100000)

RelevanceGrid == {0, 500, 700, 1000}
WordCountGrid == {0, 250, 500, 800}
SeoGrid == {0, 500, 1000}
SimilarityGrid == {0, 3000, 5000, 10000}

ScoreInputs == [relevance_score : RelevanceGrid, word_count : WordCountGrid,
                similarity_score : SimilarityGrid, seo_score : SeoGrid]

NoScoreInput == [relevance_score |-> 0, word_count |-> 0,
                 similarity_score |-> 0, seo_score |-> 0]

ScoreIdle ==
    /\ score_in = NoScoreInput
    /\ score_out = -1
    /\ prev_in = NoScoreInput
    /\ prev_out = -1

\* one call of _calculate_final_score with arguments from the grids
ScoreCall ==
    /\ \E in \in ScoreInputs :
        /\ score_in' = in
        /\ score_out' = _calculate_final_score(in.relevance_score, in.word_count,
                                               in.similarity_score, in.seo_score)
    /\ prev_in' = score_in
    /\ prev_out' = score_out
    /\ UNCHANGED <<rwVars, batchVars, fnVars>>

(***************************************************************************)
(* StatelessContentProcessor (stateless_processor.py)                      *)
(***************************************************************************)
\* round(x, 3) of an E5 value: to the nearest multiple of 100, ties to even
Round3(x) ==
    LET q == x \div 100
        r == x % 100
    IN  IF r > 50 \/ (r = 50 /\ q % 2 = 1) THEN (q + 1) * 100 ELSE q * 100

\* The rewritten dict of an item as the processor reads it (lines 250-269,
\* 291-320), with the relevance RelevanceScorer computes for it (milli).
\* seo_score (milli) and similarity_score (E4) are what SEOOptimizer and
\* SimilarityChecker measure for the same text; the processor reads neither.
ItemTable ==
    [ near   |-> [relevance |-> 966, content_length |-> 600, title_length |-> 50,
                  keywords |-> 3, meta_length |-> 0, summary_length |-> 120,
                  seo_score |-> 500, similarity_score |-> 2000],
      top    |-> [relevance |-> 1000, content_length |-> 600, title_length |-> 50,
                  keywords |-> 3, meta_length |-> 60, summary_length |-> 120,
                  seo_score |-> 1000, similarity_score |-> 0],
      edge   |-> [relevance |-> 700, content_length |-> 600, title_length |-> 50,
                  keywords |-> 3, meta_length |-> 0, summary_length |-> 0,
                  seo_score |-> 700, similarity_score |-> 3000],
      weak   |-> [relevance |-> 500, content_length |-> 300, title_length |-> 10,
                  keywords |-> 0, meta_length |-> 0, summary_length |-> 0,
                  seo_score |-> 200, similarity_score |-> 8000] ]

ItemNames == DOMAIN ItemTable

\* age in hours of item["published_at"] when the item is processed
\* (negative: a date in the future)
Ages == {-12, 0, 12, 36}

Limits == {1, 2, 10}
MinScores == {70000, 85000}
HoursAgo == {24}

\* lines 291-320, in milli
_calculate_quality_score(content) ==
    Min(1000,
        (IF content.content_length > 500 THEN 300
         ELSE IF content.content_length > 200 THEN 200 ELSE 0)
      + (IF content.title_length > 20 /\ content.title_length < 100 THEN 200 ELSE 0)
      + (IF content.keywords >= 3 THEN 200 ELSE 0)
      + (IF content.meta_length > 50 THEN 200 ELSE 0)
      + (IF content.summary_length > 100 THEN 100 ELSE 0))

\* the documented composite of an item, in E5
StatelessFinalScoreFourWeights(item, relevance_score, quality_score) ==
    Min(relevance_score * 40 + quality_score * 30 + item.seo_score * 20
        + (10000 - item.similarity_score), 100000)
\* line 256, in E5
StatelessFinalScore(relevance_score, quality_score) ==
    relevance_score * 60 + quality_score * 40

\* line 276
FeaturedFlag(final_score) == final_score >= 90000

NoArticle == [item |-> "None", relevance_score |-> 0, quality_score |-> 0,
              final_score |-> 0, published_at |-> 0, featured |-> FALSE]

\* lines 234-281.  rewrite_raises: the rewrite call raised.  The call of
\* line 242 passes title=, content=, persona=: a rewrite_content that takes
\* original_content/persona/category rejects it with TypeError.  The value
\* line 249 gets without await from an async calculate_relevance is a
\* coroutine, and line 256 raises TypeError on it.  Every exception is
\* caught at line 279 and None is returned.
_process_single_article(name, published_at, rewrite_raises) ==
    IF rewriterApi # "title_content" \/ rewrite_raises THEN NoArticle
    ELSE IF relevanceApi # "sync" THEN NoArticle
    ELSE LET rewritten == ItemTable[name]
             relevance_score == rewritten.relevance
             quality_score == _calculate_quality_score(rewritten)
             final_score == StatelessFinalScore(relevance_score, quality_score)
         IN  [item |-> name,
              relevance_score |-> relevance_score,
              quality_score |-> quality_score,
              final_score |-> Round3(final_score),
              published_at |-> published_at,
              featured |-> FeaturedFlag(final_score)]

\* lines 68, 125, 174
PassesGateStrict(article, min_score) == article.final_score > min_score
PassesGate(article, min_score) == article.final_score >= min_score

\* lines 127-129, in E5: max(0.1, 0.4 - (age_hours / hours_ago) * 0.3)
RecencyBoost(age_hours, hours_ago) ==
    Max(10000, 40000 - (age_hours * 30000) \div hours_ago)

\* sort keys: line 76 and 179 (final_score), line 138-141 (published_at,
\* final_score); a later published_at is a smaller age
SortKey(op, a) ==
    IF op = "news" THEN (0 - a.published_at) * 1000000 + a.final_score
    ELSE a.final_score

RECURSIVE InsertDesc(_, _, _)
InsertDesc(op, a, sorted) ==
    IF sorted = <<>> THEN <<a>>
    ELSE IF SortKey(op, a) > SortKey(op, Head(sorted)) THEN <<a>> \o sorted
    ELSE <<Head(sorted)>> \o InsertDesc(op, a, Tail(sorted))

SortDescKeepsOrder(op, s) == s

\* list.sort(key=..., reverse=True): stable, descending
RECURSIVE SortDesc(_, _)
SortDesc(op, s) ==
    IF s = <<>> THEN <<>>
    ELSE InsertDesc(op, s[Len(s)], SortDesc(op, SubSeq(s, 1, Len(s) - 1)))

\* s[:n]
Take(s, n) == SubSeq(s, 1, Min(n, Len(s)))

\* lines 171-176
RECURSIVE MarkFeatured(_, _)
MarkFeatured(s, min_score) ==
    IF s = <<>> THEN <<>>
    ELSE IF PassesGate(Head(s), min_score)
         THEN <<[Head(s) EXCEPT !.featured = TRUE]>>
              \o MarkFeatured(Tail(s), min_score)
         ELSE MarkFeatured(Tail(s), min_score)

\* lines 25-32; the collaborators the processor is wired to
\* api/v1/batch.py, get_processed_articles (68-123), get_processed_news
\* (125-172), get_processed_featured (174-227): the processor's list is
\* converted item by item and answered with its length; only an exception
\* leaving the processor or the conversion is answered with status 500.
NoResponse == [status_code |-> 0, total_processed |-> 0]
EndpointResponseRejectEmpty(articles) ==
    IF Len(articles) = 0
    THEN [status_code |-> 500, total_processed |-> 0]
    ELSE [status_code |-> 200, total_processed |-> Len(articles)]
EndpointResponse(articles) ==
    [status_code |-> 200, total_processed |-> Len(articles)]

BatchInit ==
    /\ rewriterApi \in {"original_content", "title_content"}
    /\ relevanceApi \in {"async", "sync"}
    /\ b_pc = "idle"
    /\ b_op = "articles"
    /\ b_limit = 0
    /\ b_min_score = 0
    /\ b_hours_ago = 24
    /\ cats_left = 0
    /\ inner_limit = 0
    /\ src_left = 0
    /\ items_left = 0
    /\ processed = NoArticle
    /\ scraped = 0
    /\ all_articles = <<>>
    /\ featured_articles = <<>>
    /\ returned = <<>>
    /\ sources_ok = FALSE
    /\ scored = FALSE
    /\ timed_out = FALSE
    /\ late_rewrite = FALSE
    /\ capability_ok = FALSE
    /\ accepted_count = 0
    /\ response = NoResponse

BatchIdle ==
    /\ rewriterApi = "original_content"
    /\ relevanceApi = "async"
    /\ b_pc = "idle"
    /\ b_op = "articles"
    /\ b_limit = 0
    /\ b_min_score = 0
    /\ b_hours_ago = 24
    /\ cats_left = 0
    /\ inner_limit = 0
    /\ src_left = 0
    /\ items_left = 0
    /\ processed = NoArticle
    /\ scraped = 0
    /\ all_articles = <<>>
    /\ featured_articles = <<>>
    /\ returned = <<>>
    /\ sources_ok = FALSE
    /\ scored = FALSE
    /\ timed_out = FALSE
    /\ late_rewrite = FALSE
    /\ capability_ok = FALSE
    /\ accepted_count = 0
    /\ response = NoResponse

BatchFresh(op, limit, min_score) ==
    /\ b_pc \in {"idle", "done"}
    /\ b_pc' = "source"
    /\ b_op' = op
    /\ b_limit' = limit
    /\ b_min_score' = min_score
    /\ items_left' = 0
    /\ processed' = NoArticle
    /\ scraped' = 0
    /\ all_articles' = <<>>
    /\ featured_articles' = <<>>
    /\ returned' = <<>>
    /\ sources_ok' = FALSE
    /\ scored' = FALSE
    /\ timed_out' = FALSE
    /\ late_rewrite' = FALSE
    /\ capability_ok' = FALSE
    /\ accepted_count' = 0
    /\ response' = NoResponse
    /\ UNCHANGED <<rewriterApi, relevanceApi, rwVars, scoreVars, fnVars>>

\* process_batch_articles, lines 34-50: _get_sources_for_category
StartArticles ==
    \E limit \in Limits, min_score \in MinScores :
        /\ BatchFresh("articles", limit, min_score)
        /\ inner_limit' = limit
        /\ src_left' = SourcesPerCategory
        /\ cats_left' = 0
        /\ UNCHANGED b_hours_ago

\* process_batch_news, lines 83-98: every source of every category
StartNews ==
    \E limit \in Limits, min_score \in MinScores, hours_ago \in HoursAgo :
        /\ BatchFresh("news", limit, min_score)
        /\ inner_limit' = limit
        /\ src_left' = NumCategories * SourcesPerCategory
        /\ cats_left' = 0
        /\ b_hours_ago' = hours_ago

\* process_batch_featured, lines 145-169: the first process_batch_articles
\* call, with limit // len(DEFAULT_SOURCES) when mix_categories
StartFeatured ==
    \E limit \in Limits, min_score \in MinScores, mix_categories \in BOOLEAN :
        /\ BatchFresh("featured", limit, min_score)
        /\ inner_limit' = IF mix_categories THEN limit \div NumCategories ELSE limit
        /\ cats_left' = IF mix_categories THEN NumCategories ELSE 1
        /\ src_left' = SourcesPerCategory
        /\ UNCHANGED b_hours_ago

\* lines 51, 71-73 / 99, 133-135: the sources still to visit once the loop
\* body for one source has ended, by an exception (raised) or not
SourcesLeftAfterAbort(left, raised) == IF raised THEN 0 ELSE left - 1
SourcesLeftAfter(left, raised) == left - 1

\* lines 52-61 / 100-107: create the scraper and scrape the next source; an
\* exception is caught at line 71 / 133 and the loop continues.  At most 10
\* (news: 5) of the scraped items are processed (lines 63, 109).
ScrapeSource ==
    /\ b_pc = "source"
    /\ src_left > 0
    /\ \/ \* create_scraper or scrape raised
          /\ src_left' = SourcesLeftAfter(src_left, TRUE)
                /\ UNCHANGED <<items_left, scraped, b_pc, sources_ok>>
       \/ \E n \in 0..Min(MaxPerSource, MaxScraped - scraped) :
            /\ src_left' = SourcesLeftAfter(src_left, FALSE)
            /\ items_left' = Min(n, IF b_op = "news" THEN 5 ELSE 10)
            /\ scraped' = scraped + n
            /\ sources_ok' = TRUE
            /\ b_pc' = IF n = 0 THEN "source" ELSE "item"
    /\ UNCHANGED <<rewriterApi, relevanceApi, b_op, b_limit, b_min_score,
                   b_hours_ago, cats_left, inner_limit, all_articles,
                   processed, featured_articles, returned, scored, response,
                   timed_out, late_rewrite, capability_ok, accepted_count,
                   rwVars, scoreVars, fnVars>>

\* lines 63-69 (articles, featured) and 109-131 (news): one loop iteration
ProcessItem ==
    /\ b_pc = "item"
    /\ items_left > 0
    /\ items_left' = items_left - 1
    /\ b_pc' = IF items_left = 1 THEN "source" ELSE "item"
    /\ \E name \in ItemNames, rewrite_raises \in BOOLEAN,
          age \in (IF b_op = "news" THEN Ages ELSE {0}) :
        IF b_op = "news" /\ age > b_hours_ago
        THEN \* line 118: pub_date < cutoff_time
             /\ capability_ok' = FALSE
             /\ UNCHANGED <<all_articles, processed, scored, late_rewrite,
                            accepted_count>>
        ELSE LET article == _process_single_article(name, age, rewrite_raises) IN
             /\ capability_ok' = ~rewrite_raises
             /\ late_rewrite' = (late_rewrite
                                  \/ (timed_out /\ rewriterApi = "title_content"))
             /\ scored' = (scored \/ article # NoArticle)
             /\ IF article # NoArticle /\ PassesGate(article, b_min_score)
                THEN LET accepted ==
                           IF b_op = "news"
                           THEN [article EXCEPT !.final_score =
                                    @ + RecencyBoost(age, b_hours_ago)]
                           ELSE article
                     IN  /\ processed' = accepted
                         /\ all_articles' = Append(all_articles, accepted)
                         /\ accepted_count' = accepted_count + 1
                ELSE /\ processed' = article
                     /\ UNCHANGED <<all_articles, accepted_count>>
    /\ UNCHANGED <<rewriterApi, relevanceApi, b_op, b_limit, b_min_score,
                   b_hours_ago, cats_left, inner_limit, src_left, scraped,
                   featured_articles, returned, sources_ok, response,
                   timed_out, rwVars, scoreVars, fnVars>>

\* process_batch_news, lines 111-119 and 133-135: published_at given as a
\* string with a UTC offset parses to an aware datetime, and comparing it
\* with the naive cutoff_time raises TypeError inside the source's try: the
\* rest of that source's items is skipped and the loop goes on with the
\* next source.
NewsItemRaises ==
    /\ b_pc = "item"
    /\ b_op = "news"
    /\ items_left > 0
    /\ items_left' = 0
    /\ b_pc' = "source"
    /\ capability_ok' = FALSE
    /\ UNCHANGED <<rewriterApi, relevanceApi, b_op, b_limit, b_min_score,
                   b_hours_ago, cats_left, inner_limit, src_left, scraped,
                   all_articles, processed, featured_articles, returned,
                   sources_ok, scored, response, timed_out, late_rewrite,
                   accepted_count, rwVars, scoreVars, fnVars>>

\* lines 75-81 / 137-143: sort, cut and return; for process_batch_featured
\* the returned list is collected (162, 165) and, after the last category,
\* filtered, marked, sorted and cut (lines 171-180).  The endpoint that made
\* the call then builds its response from the returned list.
BatchFinish ==
    /\ b_pc = "source"
    /\ src_left = 0
    /\ processed' = NoArticle
    /\ capability_ok' = FALSE
    /\ LET final_articles == Take(SortDesc(b_op, all_articles), inner_limit) IN
       IF b_op # "featured"
       THEN /\ returned' = final_articles
            /\ response' = EndpointResponse(final_articles)
            /\ b_pc' = "done"
            /\ UNCHANGED <<featured_articles, cats_left, src_left, all_articles>>
       ELSE IF cats_left > 1
       THEN /\ featured_articles' = featured_articles \o final_articles
            /\ cats_left' = cats_left - 1
            /\ src_left' = SourcesPerCategory
            /\ all_articles' = <<>>
            /\ UNCHANGED <<returned, response, b_pc>>
       ELSE LET collected == featured_articles \o final_articles
                top_articles == MarkFeatured(collected, b_min_score) IN
            /\ featured_articles' = collected
            /\ cats_left' = 0
            /\ returned' = Take(SortDesc(b_op, top_articles), b_limit)
            /\ response' = EndpointResponse(returned')
            /\ b_pc' = "done"
            /\ UNCHANGED <<src_left, all_articles>>
    /\ UNCHANGED <<rewriterApi, relevanceApi, b_op, b_limit, b_min_score,
                   b_hours_ago, inner_limit, items_left, scraped, sources_ok,
                   scored, timed_out, late_rewrite, accepted_count,
                   rwVars, scoreVars, fnVars>>

\* core/config.py:42 declares NESTJS_API_TIMEOUT (300 s, the time the caller
\* waits for a batch).  No line of the processor or of the endpoints reads
\* it or any clock: when it elapses while an operation runs, nothing in the
\* operation changes.
TimeoutElapses ==
    /\ b_pc \in {"source", "item"}
    /\ ~timed_out
    /\ timed_out' = TRUE
    /\ UNCHANGED <<rewriterApi, relevanceApi, b_pc, b_op, b_limit, b_min_score,
                   b_hours_ago, cats_left, inner_limit, src_left, items_left,
                   processed, scraped, all_articles, featured_articles,
                   returned, sources_ok, scored, response, late_rewrite,
                   capability_ok, accepted_count, rwVars,
                   scoreVars, fnVars>>

BatchNext == StartArticles \/ StartNews \/ StartFeatured \/ ScrapeSource
             \/ ProcessItem \/ NewsItemRaises \/ BatchFinish

(***************************************************************************)
(* SEOOptimizer.calculate_seo_score and suggest_improvements               *)
(* (app/ai/seo_optimizer.py:200-283).  The arguments are described by what *)
(* the two functions measure on them:                                      *)
(*   title_length      len(title)                                          *)
(*   title_keywords    the ranks i (1 = keywords[0]) with keywords[i-1]    *)
(*                     contained in the title                              *)
(*   meta_length       len(meta_description)                               *)
(*   meta_keywords     any of keywords[:2] is contained in the description *)
(*   n_keywords        len(keywords)                                       *)
(*   word_count        len(content.split())                                *)
(*   keyword_hits      sum of content.count(kw) over keywords[:3]          *)
(*   has_subtitles     '##' in content                                     *)
(*   paragraph_breaks  content.count('\n\n')                               *)
(*   has_link          '[' in content and '](' in content                  *)
(***************************************************************************)
TitleLengths == {29, 45, 60, 61}
MetaLengths == {119, 140, 160, 161}
WordCounts == {0, 299, 500, 2000, 2001}
KeywordHits == {0, 4, 10, 20, 26, 31}
ParagraphBreaks == {0, 1, 2}

\* an empty keyword list is contained nowhere; an empty content has no
\* words, no markers and no keyword occurrence
SeoInputs ==
    { a \in [title_length : TitleLengths, title_keywords : SUBSET {1, 2},
             meta_length : MetaLengths, meta_keywords : BOOLEAN,
             n_keywords : {0, 3}, word_count : WordCounts,
             keyword_hits : KeywordHits, has_subtitles : BOOLEAN,
             paragraph_breaks : ParagraphBreaks, has_link : BOOLEAN] :
        /\ a.n_keywords = 0 =>
              a.title_keywords = {} /\ ~a.meta_keywords /\ a.keyword_hits = 0
        /\ a.word_count = 0 =>
              /\ a.keyword_hits = 0 /\ ~a.has_subtitles /\ ~a.has_link
              /\ a.paragraph_breaks = 0 }

NoSeoInput == [title_length |-> 0, title_keywords |-> {}, meta_length |-> 0,
               meta_keywords |-> FALSE, n_keywords |-> 0, word_count |-> 0,
               keyword_hits |-> 0, has_subtitles |-> FALSE,
               paragraph_breaks |-> 0, has_link |-> FALSE]

\* lines 226 and 276: the division by total_words raises ZeroDivisionError
DensityRaises(a) == a.n_keywords > 0 /\ a.word_count = 0

\* keyword_density compared with a bound given in percent
DensityAtLeast(a, percent) == a.keyword_hits * 100 >= percent * a.word_count
DensityAtMost(a, percent) == a.keyword_hits * 100 <= percent * a.word_count

\* the increments of calculate_seo_score, in milli
TitleLengthPoints(a) ==
    IF 30 <= a.title_length /\ a.title_length <= 60 THEN 150 ELSE 0
TitleKeywordPoints(a) ==
    IF a.n_keywords > 0 /\ 1 \in a.title_keywords THEN 50 ELSE 0
MetaLengthPoints(a) ==
    IF 120 <= a.meta_length /\ a.meta_length <= 160 THEN 100 ELSE 0
MetaKeywordPoints(a) ==
    IF a.n_keywords > 0 /\ a.meta_keywords THEN 50 ELSE 0
WordCountPoints(a) ==
    IF 300 <= a.word_count /\ a.word_count <= 2000 THEN 150 ELSE 0
DensityPoints(a) ==
    IF a.n_keywords = 0 THEN 0
    ELSE IF DensityAtLeast(a, 2) /\ DensityAtMost(a, 4) THEN 100
    ELSE IF DensityAtMost(a, 6) THEN 50
    ELSE 0
StructurePoints(a) ==
    IF a.has_subtitles \/ a.paragraph_breaks >= 2 THEN 100 ELSE 0
ParagraphPoints(a) ==
    IF a.paragraph_breaks + 1 >= 3 THEN 50 ELSE 0
LinkPoints(a) == IF a.has_link THEN 100 ELSE 0

\* lines 200-242; only called when DensityRaises(a) is false
calculate_seo_score(a) ==
    Min(TitleLengthPoints(a) + TitleKeywordPoints(a) + MetaLengthPoints(a)
        + MetaKeywordPoints(a) + WordCountPoints(a) + DensityPoints(a)
        + StructurePoints(a) + ParagraphPoints(a) + LinkPoints(a), 1000)

\* lines 244-283: the messages, named by what they ask for
suggest_improvements(a) ==
    (IF a.title_length < 30 THEN {"title_short"}
     ELSE IF a.title_length > 60 THEN {"title_long"} ELSE {})
    \cup (IF a.n_keywords > 0 /\ a.title_keywords = {}
          THEN {"keyword_in_title"} ELSE {})
    \cup (IF a.meta_length < 120 THEN {"meta_short"}
          ELSE IF a.meta_length > 160 THEN {"meta_long"} ELSE {})
    \cup (IF a.word_count < 300 THEN {"content_short"} ELSE {})
    \cup (IF ~a.has_subtitles /\ a.paragraph_breaks < 2
          THEN {"add_subtitles"} ELSE {})
    \cup (IF a.n_keywords = 0 THEN {}
          ELSE IF ~DensityAtLeast(a, 1) THEN {"density_low"}
          ELSE IF ~DensityAtMost(a, 5) THEN {"density_high"}
          ELSE {})

SeoInit ==
    /\ seo_pc = "new"
    /\ seo_in \in SeoInputs
    /\ seo_outcome = "none"
    /\ seo_result = -1
    /\ suggest_outcome = "none"
    /\ suggestions = {}

SeoIdle ==
    /\ seo_pc = "idle"
    /\ seo_in = NoSeoInput
    /\ seo_outcome = "none"
    /\ seo_result = -1
    /\ suggest_outcome = "none"
    /\ suggestions = {}

\* one call of calculate_seo_score(title, content, meta_description, keywords)
SeoScoreCall ==
    /\ seo_pc = "new"
    /\ seo_pc' = "scored"
    /\ IF DensityRaises(seo_in)
       THEN /\ seo_outcome' = "raised"
            /\ UNCHANGED seo_result
       ELSE /\ seo_outcome' = "returned"
            /\ seo_result' = calculate_seo_score(seo_in)
    /\ UNCHANGED <<seo_in, suggest_outcome, suggestions>>
    /\ UNCHANGED <<rwVars, scoreVars, batchVars, simcVars, relVars, dbVars>>

\* one call of suggest_improvements on the same arguments
SuggestCall ==
    /\ seo_pc = "scored"
    /\ seo_pc' = "suggested"
    /\ IF DensityRaises(seo_in)
       THEN /\ suggest_outcome' = "raised"
            /\ UNCHANGED suggestions
       ELSE /\ suggest_outcome' = "returned"
            /\ suggestions' = suggest_improvements(seo_in)
    /\ UNCHANGED <<seo_in, seo_outcome, seo_result>>
    /\ UNCHANGED <<rwVars, scoreVars, batchVars, simcVars, relVars, dbVars>>

SeoNext == SeoScoreCall \/ SuggestCall

(***************************************************************************)
(* SimilarityChecker.calculate_similarity called on its own                *)
(* (app/ai/similarity_checker.py:23-61)                                    *)
(***************************************************************************)
NoComponents == [sequence |-> -1, tfidf |-> -1, phrase |-> -1]

SimInit ==
    /\ sim_pc = "new"
    /\ sim_text1 \in AllTexts
    /\ sim_text2 \in AllTexts
    /\ sim_fault \in Faults
    /\ sim_components = NoComponents
    /\ sim_outcome = "none"
    /\ sim_result = -1

SimIdle ==
    /\ sim_pc = "idle"
    /\ sim_text1 = None
    /\ sim_text2 = None
    /\ sim_fault = "none"
    /\ sim_components = NoComponents
    /\ sim_outcome = "none"
    /\ sim_result = -1

\* one call; the components are not computed when _preprocess_text raised
SimilarityCall ==
    /\ sim_pc = "new"
    /\ sim_pc' = "done"
    /\ sim_outcome' = "returned"
    /\ sim_result' = SimilarityUnder(sim_text1, sim_text2, sim_fault)
    /\ sim_components' =
          IF sim_text1 = None \/ sim_text2 = None THEN NoComponents
          ELSE [sequence |-> _calculate_sequence_similarity(sim_text1, sim_text2, sim_fault),
                tfidf |-> _calculate_tfidf_similarity(sim_text1, sim_text2, sim_fault),
                phrase |-> _calculate_phrase_similarity(sim_text1, sim_text2, sim_fault)]
    /\ UNCHANGED <<sim_text1, sim_text2, sim_fault>>
    /\ UNCHANGED <<rwVars, scoreVars, batchVars, seoVars, relVars, dbVars>>

SimNext == SimilarityCall

(***************************************************************************)
(* RelevanceScorer.calculate_relevance                                     *)
(* (app/content/relevance_scorer.py:24-282).  Sub-scores in milli, the     *)
(* result in E5.  The arguments are described by what the function reads:  *)
(*   found          the table keywords (trending or seasonal) contained in *)
(*                  f"{title} {content}".lower()                           *)
(*   category       the category argument, None for a missing one          *)
(*   month          month of published_date (1..12)                        *)
(*   age_hours      now - published_date in hours, negative for a date in  *)
(*                  the future                                             *)
(*   date_kind      "naive" | "aware" (a timezone-aware published_date)    *)
(*   title_words    the engaging words contained in title.lower()          *)
(*   title_length   len(title)                                             *)
(*   title_digit    the title contains a digit                             *)
(* Accented letters of the source's keywords are written without accent.   *)
(***************************************************************************)
\* lines 30-54
trending_keywords ==
    ("gta 6" :> 950) @@ ("baldurs gate 3" :> 900) @@ ("cyberpunk" :> 850)
    @@ ("fortnite" :> 800) @@ ("valorant" :> 750) @@ ("marvel" :> 850)
    @@ ("netflix" :> 800) @@ ("disney plus" :> 750)
    @@ ("stranger things" :> 700) @@ ("inteligencia artificial" :> 950)
    @@ ("chatgpt" :> 900) @@ ("iphone 15" :> 850) @@ ("tesla" :> 800)
    @@ ("one piece" :> 900) @@ ("demon slayer" :> 850)
    @@ ("attack on titan" :> 800)

NoKeywords == [k \in {} |-> 0]

\* lines 60-82 and 174-192: the table of the month, empty if it has none
seasonal_keywords(month) ==
    IF month = 12 THEN ("natal" :> 900) @@ ("ano novo" :> 850)
                       @@ ("ferias" :> 800) @@ ("games natal" :> 850)
    ELSE IF month = 1 THEN ("lancamentos" :> 800) @@ ("preview" :> 750)
                           @@ ("ces" :> 900)
    ELSE IF month = 6 THEN ("e3" :> 950) @@ ("summer game fest" :> 900)
                           @@ ("nintendo direct" :> 850)
    ELSE IF month = 10 THEN ("halloween" :> 850) @@ ("horror games" :> 900)
                            @@ ("filmes terror" :> 850)
    ELSE NoKeywords

\* lines 88-95 and 214-215; "cultura pop" is looked up as "cultura-pop"
category_weights(category) ==
    IF category = "games" THEN 1000
    ELSE IF category = "filmes" THEN 900
    ELSE IF category = "series" THEN 850
    ELSE IF category = "tecnologia" THEN 800
    ELSE IF category = "hqs" THEN 750
    ELSE IF category \in {"cultura-pop", "cultura pop"} THEN 700
    ELSE 500

\* lines 248-265
engaging_words ==
    ("exclusivo" :> 900) @@ ("revelado" :> 800) @@ ("confirmado" :> 800)
    @@ ("oficial" :> 700) @@ ("trailer" :> 800) @@ ("gameplay" :> 800)
    @@ ("review" :> 700) @@ ("novidade" :> 600) @@ ("lancamento" :> 700)
    @@ ("breaking" :> 900) @@ ("primeiro" :> 600) @@ ("ultimo" :> 600)
    @@ ("melhor" :> 500) @@ ("pior" :> 500) @@ ("top" :> 600)
    @@ ("lista" :> 500)

\* sum of table[k] over the keys
RECURSIVE SumWeights(_, _)
SumWeights(table, keys) ==
    IF keys = {} THEN 0
    ELSE LET k == CHOOSE x \in keys : TRUE
         IN  table[k] + SumWeights(table, keys \ {k})

\* lines 150-168
_calculate_keyword_score(found) ==
    LET matched == DOMAIN trending_keywords \cap found IN
    IF matched # {}
    THEN Min(SumWeights(trending_keywords, matched) \div Cardinality(matched), 1000)
    ELSE 300

\* lines 170-208
_calculate_seasonal_score_no_neutral(found, month) ==
    LET table == seasonal_keywords(month)
        matched == DOMAIN table \cap found IN
    IF matched # {}
    THEN Min(SumWeights(table, matched) \div Cardinality(matched), 1000)
    ELSE 400
_calculate_seasonal_score(found, month) ==
    LET table == seasonal_keywords(month)
        matched == DOMAIN table \cap found IN
    IF DOMAIN table = {} THEN 500
    ELSE IF matched # {}
    THEN Min(SumWeights(table, matched) \div Cardinality(matched), 1000)
    ELSE 400

\* lines 210-215; only called with a category that is a string
_calculate_category_score(category) == category_weights(category)

\* lines 217-237
_calculate_freshness_score_past_only(age_hours) ==
    IF 0 <= age_hours /\ age_hours <= 1 THEN 1000
    ELSE IF 1 < age_hours /\ age_hours <= 6 THEN 900
    ELSE IF 6 < age_hours /\ age_hours <= 24 THEN 800
    ELSE IF 24 < age_hours /\ age_hours <= 72 THEN 700
    ELSE IF 72 < age_hours /\ age_hours <= 168 THEN 500
    ELSE 300
_calculate_freshness_score(age_hours) ==
    IF age_hours <= 1 THEN 1000
    ELSE IF age_hours <= 6 THEN 900
    ELSE IF age_hours <= 24 THEN 800
    ELSE IF age_hours <= 72 THEN 700
    ELSE IF age_hours <= 168 THEN 500
    ELSE 300

\* lines 239-282
_estimate_engagement_score(title_words, title_length, title_digit) ==
    Min(400 + SumWeights(engaging_words, title_words) \div 10
            + (IF 40 <= title_length /\ title_length <= 70 THEN 100 ELSE 0)
            + (IF title_digit THEN 50 ELSE 0),
        1000)

\* line 124 raises AttributeError on a category that is None and line 223
\* TypeError on a timezone-aware date; both end in the except of line 146
RelevanceFails(a) == a.category = None \/ a.date_kind = "aware"

\* lines 122-126
RelevanceComponents(a) ==
    [keyword |-> _calculate_keyword_score(a.found),
     seasonal |-> _calculate_seasonal_score(a.found, a.month),
     category |-> _calculate_category_score(a.category),
     freshness |-> _calculate_freshness_score(a.age_hours),
     engagement |-> _estimate_engagement_score(a.title_words, a.title_length,
                                                a.title_digit)]

\* lines 97-148
calculate_relevance(a) ==
    IF RelevanceFails(a) THEN 50000
    ELSE LET c == RelevanceComponents(a) IN
         Min(c.keyword * 30 + c.seasonal * 20 + c.category * 20
             + c.freshness * 15 + c.engagement * 15, 100000)

FoundSets == {{}, {"gta 6"}, {"gta 6", "netflix"}, {"natal"},
              {"natal", "games natal", "stranger things"},
              {"ces", "lancamentos"}, {"e3", "natal"}}
Months == {1, 3, 6, 12}
Categories == {"games", "cultura pop", "esportes", None}
AgeHours == {-5, 1, 2, 24, 100, 169}
TitleWordSets == {{}, {"top"}, {"exclusivo", "trailer"},
                  {"exclusivo", "revelado", "confirmado", "oficial",
                   "trailer", "gameplay", "review", "breaking"}}
RelTitleLengths == {39, 40, 70}

RelevanceInputs ==
    [found : FoundSets, category : Categories, month : Months,
     age_hours : AgeHours, date_kind : {"naive", "aware"},
     title_words : TitleWordSets, title_length : RelTitleLengths,
     title_digit : BOOLEAN]

NoRelevanceInput ==
    [found |-> {}, category |-> None, month |-> 1, age_hours |-> 0,
     date_kind |-> "naive", title_words |-> {}, title_length |-> 0,
     title_digit |-> FALSE]

NoRelevanceComponents ==
    [keyword |-> -1, seasonal |-> -1, category |-> -1, freshness |-> -1,
     engagement |-> -1]

RelInit ==
    /\ rel_pc = "new"
    /\ rel_in \in RelevanceInputs
    /\ rel_components = NoRelevanceComponents
    /\ rel_outcome = "none"
    /\ rel_result = -1

RelIdle ==
    /\ rel_pc = "idle"
    /\ rel_in = NoRelevanceInput
    /\ rel_components = NoRelevanceComponents
    /\ rel_outcome = "none"
    /\ rel_result = -1

\* one awaited call of calculate_relevance
RelevanceCall ==
    /\ rel_pc = "new"
    /\ rel_pc' = "done"
    /\ rel_outcome' = "returned"
    /\ rel_result' = calculate_relevance(rel_in)
    /\ rel_components' = IF RelevanceFails(rel_in) THEN NoRelevanceComponents
                         ELSE RelevanceComponents(rel_in)
    /\ UNCHANGED rel_in
    /\ UNCHANGED <<rwVars, scoreVars, batchVars, seoVars, simcVars, dbVars>>

RelNext == RelevanceCall

RewriterIdle ==
    /\ anthropic_client = FALSE
    /\ openai_client = FALSE
    /\ rw_pc = "idle"
    /\ original_content = None
    /\ attempts = <<>>
    /\ prompts = <<>>
    /\ simArgs = <<>>
    /\ similarity_score = -1
    /\ outcome = "none"
    /\ result = NoResult
    /\ rw_calls = 0
    /\ ext_total = 0

(***************************************************************************)
(* ContentGenerator: _process_scraped_item and update_trending_scores      *)
(* (app/content/content_generator.py:123-225, 385-429).  Several runs of   *)
(* generate_content_from_sources work on the same Article table; a run     *)
(* gives up control where it awaits the external capability (the rewrite   *)
(* and the title/summary request), and everything between two such awaits  *)
(* is one step.  The table is the plain collection of the rows added to    *)
(* it.  Scores are in milli, similarity in E4, final scores in E5.         *)
(***************************************************************************)
\* settings.MIN_CONTENT_SCORE = 0.7, in milli
MIN_CONTENT_SCORE == 700

Runs == {"run1", "run2"}
URLs == {"u1", "u2"}

\* values of calculate_relevance, of the similarity and word count of a
\* rewrite result, and of seo_data['seo_score']
GenRelevanceGrid == {500, 700, 950}
GenSimilarityGrid == {1000, 3000, 5000}
GenWordCounts == {500}
GenSeoGrid == {500, 850}

\* the keys of a rewrite_content result that _process_scraped_item reads
\* (content_rewriter.py:86-92)
RewriteResult(similarity, word_count) ==
    [similarity_score |-> similarity, word_count |-> word_count,
     is_original |-> IsOriginal(similarity)]

NoRewrite == [similarity_score |-> -1, word_count |-> -1, is_original |-> FALSE]

\* lines 128-130: query(Article).filter(source_url == ...).first()
existing(table, source_url) ==
    \E i \in 1..Len(table) : table[i].source_url = source_url

\* line 149
RelevanceTooLowNever(relevance_score) == FALSE
RelevanceTooLow(relevance_score) == relevance_score < MIN_CONTENT_SCORE

\* line 162
NotOriginal(rewrite_result) == ~rewrite_result.is_original

\* lines 184-204, the columns the scores decide; word_count stands for
\* len(content.split()) of the stored content
article_data_featured_draft(source_url, relevance_score, rewrite_result, final_score) ==
    [source_url |-> source_url,
     relevance_score |-> relevance_score,
     final_score |-> final_score,
     similarity_score |-> rewrite_result.similarity_score,
     word_count |-> rewrite_result.word_count,
     status |-> IF final_score >= 90000 THEN "published" ELSE "draft",
     featured |-> final_score >= 80000,
     published_at |-> IF final_score >= 90000 THEN "now" ELSE None]
article_data(source_url, relevance_score, rewrite_result, final_score) ==
    [source_url |-> source_url,
     relevance_score |-> relevance_score,
     final_score |-> final_score,
     similarity_score |-> rewrite_result.similarity_score,
     word_count |-> rewrite_result.word_count,
     status |-> IF final_score >= 80000 THEN "published" ELSE "draft",
     featured |-> final_score >= 90000,
     published_at |-> IF final_score >= 80000 THEN "now" ELSE None]

\* lines 207-209: Article(**article_data), db.add, db.commit.  The Article
\* model is not part of the code at hand; the table takes every row it is
\* given.
db_add(table, row) == Append(table, row)

\* lines 403-421: the new scores of one article
rescored(article, relevance_score) ==
    LET final_score == _calculate_final_score(relevance_score, article.word_count,
                                              article.similarity_score, 800)
    IN  [article EXCEPT !.relevance_score = relevance_score,
                        !.final_score = final_score,
                        !.featured = (final_score >= 90000)]

InFlight == Cardinality({r \in Runs : g_pc[r] # "idle"})

GenInit ==
    /\ article_table = <<>>
    /\ g_pc = [r \in Runs |-> "idle"]
    /\ g_item = [r \in Runs |-> None]
    /\ g_relevance = [r \in Runs |-> -1]
    /\ g_rewrite = [r \in Runs |-> NoRewrite]
    /\ rewrite_calls = {}
    /\ rejected = {}

GenIdle == GenInit

\* lines 127-159: from the existence check to the await of rewrite_content
\* (calculate_relevance is awaited without giving up control)
ProcessScrapedItem(run) ==
    /\ g_pc[run] = "idle"
    /\ \E source_url \in URLs, relevance_score \in GenRelevanceGrid :
        IF existing(article_table, source_url)
        THEN /\ rejected' = rejected \cup {"existing"}
             /\ UNCHANGED <<g_pc, g_item, g_relevance, rewrite_calls>>
        ELSE IF RelevanceTooLow(relevance_score)
        THEN /\ rejected' = rejected \cup {"low_relevance"}
             /\ UNCHANGED <<g_pc, g_item, g_relevance, rewrite_calls>>
        ELSE /\ Len(article_table) + InFlight < MaxArticles
             /\ g_pc' = [g_pc EXCEPT ![run] = "rewrite"]
             /\ g_item' = [g_item EXCEPT ![run] = source_url]
             /\ g_relevance' = [g_relevance EXCEPT ![run] = relevance_score]
             /\ rewrite_calls' = rewrite_calls \cup
                   {[has_article |-> \E i \in 1..Len(article_table) :
                                        article_table[i].source_url = source_url,
                     relevance_score |-> relevance_score]}
             /\ UNCHANGED rejected
    /\ UNCHANGED <<article_table, g_rewrite>>
    /\ UNCHANGED <<rwVars, scoreVars, batchVars, seoVars, simcVars, relVars, srcVars>>

\* lines 154-169: rewrite_content completes (it raises when the capability
\* fails, line 223 then returns None) and, for an original result, the
\* title/summary request is awaited
RewriteReturns(run) ==
    /\ g_pc[run] = "rewrite"
    /\ \/ /\ g_pc' = [g_pc EXCEPT ![run] = "idle"]
          /\ g_item' = [g_item EXCEPT ![run] = None]
          /\ g_relevance' = [g_relevance EXCEPT ![run] = -1]
          /\ UNCHANGED <<g_rewrite, rejected>>
       \/ \E similarity \in GenSimilarityGrid, word_count \in GenWordCounts :
            LET rewrite_result == RewriteResult(similarity, word_count) IN
            IF NotOriginal(rewrite_result)
            THEN /\ g_pc' = [g_pc EXCEPT ![run] = "idle"]
                 /\ g_item' = [g_item EXCEPT ![run] = None]
                 /\ g_relevance' = [g_relevance EXCEPT ![run] = -1]
                 /\ rejected' = rejected \cup {"not_original"}
                 /\ UNCHANGED g_rewrite
            ELSE /\ g_pc' = [g_pc EXCEPT ![run] = "title"]
                 /\ g_rewrite' = [g_rewrite EXCEPT ![run] = rewrite_result]
                 /\ UNCHANGED <<g_item, g_relevance, rejected>>
    /\ UNCHANGED <<article_table, rewrite_calls>>
    /\ UNCHANGED <<rwVars, scoreVars, batchVars, seoVars, simcVars, relVars, srcVars>>

\* lines 167-225: the title/summary request completes; SEO, final score and
\* the insert follow without another await.  An exception in between
\* (line 223) persists nothing.
TitleSummaryReturns(run) ==
    /\ g_pc[run] = "title"
    /\ \/ UNCHANGED article_table
       \/ \E seo_score \in GenSeoGrid :
            LET final_score == _calculate_final_score(g_relevance[run],
                                   g_rewrite[run].word_count,
                                   g_rewrite[run].similarity_score, seo_score)
            IN  article_table' = db_add(article_table,
                    article_data(g_item[run], g_relevance[run], g_rewrite[run],
                                 final_score))
    /\ g_pc' = [g_pc EXCEPT ![run] = "idle"]
    /\ g_item' = [g_item EXCEPT ![run] = None]
    /\ g_relevance' = [g_relevance EXCEPT ![run] = -1]
    /\ g_rewrite' = [g_rewrite EXCEPT ![run] = NoRewrite]
    /\ UNCHANGED <<rewrite_calls, rejected>>
    /\ UNCHANGED <<rwVars, scoreVars, batchVars, seoVars, simcVars, relVars, srcVars>>

\* lines 385-429: the published article_table of the last seven days get a new
\* relevance_score, final_score and featured flag; status and published_at
\* are left as they are.  recent is the set the query of lines 393-396
\* returns (an exception part-way leaves a prefix of it changed).
update_trending_scores ==
    /\ \E recent \in SUBSET { i \in 1..Len(article_table) : article_table[i].status = "published" } :
        /\ recent # {}
        /\ \E relevance_score \in [recent -> GenRelevanceGrid] :
            article_table' = [i \in 1..Len(article_table) |->
                            IF i \in recent
                            THEN rescored(article_table[i], relevance_score[i])
                            ELSE article_table[i]]
    /\ UNCHANGED <<g_pc, g_item, g_relevance, g_rewrite, rewrite_calls, rejected>>
    /\ UNCHANGED <<rwVars, scoreVars, batchVars, seoVars, simcVars, relVars, srcVars>>

GenNext ==
    \/ \E run \in Runs : ProcessScrapedItem(run)
    \/ \E run \in Runs : RewriteReturns(run)
    \/ \E run \in Runs : TitleSummaryReturns(run)
    \/ update_trending_scores

(***************************************************************************)
(* ContentGenerator: _get_active_sources and _scrape_source                *)
(* (app/content/content_generator.py:77-121), one run of                   *)
(* generate_content_from_sources after another over the Source rows.       *)
(***************************************************************************)
SourceOrder == <<"src1", "src2">>
SourceIds == {"src1", "src2"}

\* line 116
ShouldDeactivateAbove(scraping_errors) == scraping_errors > 5
ShouldDeactivate(scraping_errors) == scraping_errors >= 5

\* lines 81-90: the active sources, in the order of the query
_get_active_sources(rows) ==
    SelectSeq(SourceOrder, LAMBDA id : rows[id].is_active)

NoScrape == [outcome |-> "none", before |-> -1]

SrcInit ==
    /\ sources = [id \in SourceIds |-> [scraping_errors |-> 0, is_active |-> TRUE]]
    /\ s_pc = "idle"
    /\ s_pending = <<>>
    /\ s_selected = {}
    /\ s_last = [id \in SourceIds |-> NoScrape]
    /\ s_streak = [id \in SourceIds |-> 0]

SrcIdle == SrcInit

\* content_generator.py:44-49: a run selects its sources
SelectSources ==
    /\ s_pc = "idle"
    /\ s_pending' = _get_active_sources(sources)
    /\ s_selected' = { [id |-> id, is_active |-> sources[id].is_active] :
                         id \in { s_pending'[i] : i \in 1..Len(s_pending') } }
    /\ s_pc' = IF s_pending' = <<>> THEN "idle" ELSE "scraping"
    /\ UNCHANGED <<sources, s_last, s_streak>>
    /\ UNCHANGED <<rwVars, scoreVars, batchVars, seoVars, simcVars, relVars, genVars>>

\* lines 92-121: _scrape_source of the next selected source
ScrapeSourceRow ==
    /\ s_pc = "scraping"
    /\ LET id == Head(s_pending)
           row == sources[id] IN
       /\ \/ \* lines 103-109: scraper.scrape() returned
             /\ sources' = [sources EXCEPT ![id].scraping_errors = 0]
             /\ s_last' = [s_last EXCEPT ![id] =
                              [outcome |-> "ok", before |-> row.scraping_errors]]
             /\ s_streak' = [s_streak EXCEPT ![id] = 0]
          \/ \* lines 111-121: it raised
             /\ row.scraping_errors < MaxFailures
             /\ sources' = [sources EXCEPT ![id] =
                   [scraping_errors |-> row.scraping_errors + 1,
                    is_active |-> IF ShouldDeactivate(row.scraping_errors + 1)
                                  THEN FALSE ELSE row.is_active]]
             /\ s_last' = [s_last EXCEPT ![id] =
                              [outcome |-> "failed", before |-> row.scraping_errors]]
             /\ s_streak' = [s_streak EXCEPT ![id] = @ + 1]
       /\ s_pending' = Tail(s_pending)
       /\ s_pc' = IF Tail(s_pending) = <<>> THEN "idle" ELSE "scraping"
    /\ UNCHANGED s_selected
    /\ UNCHANGED <<rwVars, scoreVars, batchVars, seoVars, simcVars, relVars, genVars>>

SrcNext == SelectSources \/ ScrapeSourceRow

(***************************************************************************)
(* Specifications                                                          *)
(***************************************************************************)
\* the rewrite controller
DbIdle == GenIdle /\ SrcIdle
FnIdle == SeoIdle /\ SimIdle /\ RelIdle /\ DbIdle

Init == RewriterInit /\ ScoreIdle /\ BatchIdle /\ FnIdle
Next == RewriterNext
Spec == Init /\ [][Next]_vars

\* the composite score as a function of its inputs
InitScore == RewriterIdle /\ ScoreIdle /\ BatchIdle /\ FnIdle
NextScore == ScoreCall
SpecScore == InitScore /\ [][NextScore]_vars

\* the stateless batch operations
InitBatch == RewriterIdle /\ ScoreIdle /\ BatchInit /\ FnIdle
NextBatch == BatchNext
SpecBatch == InitBatch /\ [][NextBatch]_vars

\* the stateless batch operations while the caller's timeout runs out
InitTimeout == InitBatch
NextTimeout == BatchNext \/ TimeoutElapses
SpecTimeout == InitTimeout /\ [][NextTimeout]_vars

\* the SEO rubric and its suggestions as functions of their arguments
InitSeo == RewriterIdle /\ ScoreIdle /\ BatchIdle /\ SeoInit /\ SimIdle /\ RelIdle /\ DbIdle
NextSeo == SeoNext
SpecSeo == InitSeo /\ [][NextSeo]_vars

\* the similarity measure as a function of its arguments
InitSim == RewriterIdle /\ ScoreIdle /\ BatchIdle /\ SeoIdle /\ SimInit /\ RelIdle /\ DbIdle
NextSim == SimNext
SpecSim == InitSim /\ [][NextSim]_vars

\* the relevance score as a function of its arguments
InitRel == RewriterIdle /\ ScoreIdle /\ BatchIdle /\ SeoIdle /\ SimIdle /\ RelInit /\ DbIdle
NextRel == RelNext
SpecRel == InitRel /\ [][NextRel]_vars

\* the content generator's runs over the Article table
InitGen == RewriterIdle /\ ScoreIdle /\ BatchIdle /\ SeoIdle /\ SimIdle /\ RelIdle /\ GenInit /\ SrcIdle
NextGen == GenNext
SpecGen == InitGen /\ [][NextGen]_vars

\* the content generator's runs over the Source rows
InitSrc == RewriterIdle /\ ScoreIdle /\ BatchIdle /\ SeoIdle /\ SimIdle /\ RelIdle /\ GenIdle /\ SrcInit
NextSrc == SrcNext
SpecSrc == InitSrc /\ [][NextSrc]_vars

(***************************************************************************)
(* Properties of rewrite_content                                           *)
(***************************************************************************)
Configured == anthropic_client \/ openai_client
Finished == rw_pc = "done"
ExtCalls == Len(attempts)
FirstSimilarity == calculate_similarity(simArgs[1][1], simArgs[1][2])
CapabilityFailed == \E i \in 1..Len(attempts) : attempts[i] = None

\* C1: with a configured capability a finished rewrite_content call made
\* exactly one external invocation if the first attempt's similarity was
\* <= the threshold, exactly two if it was above, and never more than two.
C1_RetryInvariant ==
    Configured =>
        /\ ExtCalls <= 2
        /\ (Finished /\ Len(simArgs) >= 1) =>
              IF FirstSimilarity <= REWRITE_SIMILARITY_THRESHOLD
              THEN ExtCalls = 1
              ELSE ExtCalls = 2

C1_Witness ==
    /\ Configured /\ Finished /\ ExtCalls = 2
    /\ FirstSimilarity > REWRITE_SIMILARITY_THRESHOLD

\* C2: when the capability fails (first or second attempt) or is not
\* available, rewrite_content returns a result marked fallback = true and
\* is_original = false, and raises nothing.
C2_FallbackOnFailure ==
    (Finished /\ (~Configured \/ CapabilityFailed)) =>
        /\ outcome = "returned"
        /\ "fallback" \in DOMAIN result
        /\ result["fallback"] = TRUE
        /\ result.is_original = FALSE

\* C3: a rewriter constructed without any capability never invokes one, and
\* every rewrite_content call on it returns through the fallback path.
C3_UnavailableUsesFallback ==
    ~Configured =>
        /\ ext_total = 0
        /\ Finished =>
              /\ outcome = "returned"
              /\ "fallback" \in DOMAIN result

\* C4: a returned result carries the text and the similarity of the last
\* attempt made, and is_original is true exactly when that similarity is
\* strictly below the threshold.
C4_ResultIsLastAttempt ==
    outcome = "returned" =>
        /\ result.rewritten_content = attempts[Len(attempts)]
        /\ result.similarity_score =
              calculate_similarity(original_content, attempts[Len(attempts)])
        /\ result.is_original <=>
              (result.similarity_score < REWRITE_SIMILARITY_THRESHOLD)

C4_Witness ==
    /\ outcome = "returned"
    /\ Len(attempts) = 2
    /\ result.similarity_score >= REWRITE_SIMILARITY_THRESHOLD
    /\ result.rewritten_content # attempts[1]

\* C5: every similarity measurement of a call compares the pristine original
\* with the text of the attempt just made, and every prompt (the aggressive
\* one included) is built from the original.
C5_AlwaysAgainstOriginal ==
    /\ \A i \in 1..Len(simArgs) : simArgs[i] = <<original_content, attempts[i]>>
    /\ \A i \in 1..Len(prompts) : prompts[i].content = original_content

C5_Witness ==
    /\ Len(simArgs) = 2
    /\ Len(prompts) = 2
    /\ prompts[2].kind = "aggressive"
    /\ attempts[1] # original_content

(***************************************************************************)
(* Properties of the stateless batch operations                            *)
(***************************************************************************)
Emitted == processed # NoArticle
InList(s, P(_)) == \E i \in 1..Len(s) : P(s[i])
AllInList(s, P(_)) == \A i \in 1..Len(s) : P(s[i])

C8_AdmissionGate ==
    /\ AllInList(returned, LAMBDA a : a.final_score >= b_min_score)
    /\ AllInList(all_articles, LAMBDA a : a.final_score >= b_min_score)
    /\ (Emitted /\ processed.final_score >= b_min_score) =>
          /\ Len(all_articles) > 0
          /\ all_articles[Len(all_articles)] = processed

C8_Witness ==
    /\ b_pc = "done"
    /\ Len(returned) >= 2
    /\ InList(returned, LAMBDA a : a.final_score = b_min_score)

NonIncreasingScore(s) ==
    \A i \in 1..Len(s) : \A j \in i..Len(s) : s[i].final_score >= s[j].final_score

\* newest first; among equally old items the higher final score first
RecencyThenScore(s) ==
    \A i \in 1..Len(s) : \A j \in i..Len(s) :
        \/ s[i].published_at < s[j].published_at
        \/ /\ s[i].published_at = s[j].published_at
           /\ s[i].final_score >= s[j].final_score

C12_EmptyBatchIsSuccess ==
    (b_pc = "done" /\ scraped > 0 /\ returned = <<>>) =>
        /\ response.status_code = 200
        /\ response.total_processed = 0

C12_Witness ==
    /\ b_pc = "done"
    /\ b_op = "articles"
    /\ scored
    /\ returned = <<>>
    /\ response = [status_code |-> 200, total_processed |-> 0]

C13_AllSourcesFailedIsError ==
    (b_pc = "done" /\ ~sources_ok) => response.status_code # 200

(***************************************************************************)
(* Properties of the SEO rubric                                            *)
(***************************************************************************)
\* title of 45 characters with the top keyword, description of 140
\* characters with a top-2 keyword, 500 words, density in [0.02, 0.04],
\* subtitle markers and a markdown link
IdealSeoInput(a) ==
    /\ a.title_length = 45 /\ 1 \in a.title_keywords
    /\ a.meta_length = 140 /\ a.meta_keywords
    /\ a.n_keywords > 0
    /\ a.word_count = 500
    /\ DensityAtLeast(a, 2) /\ DensityAtMost(a, 4)
    /\ a.has_subtitles
    /\ a.has_link

\* C14: calculate_seo_score returns exactly 1.0 for an input that satisfies
\* every rubric clause at once.
C14_IdealInputScoresOne ==
    (seo_outcome = "returned" /\ IdealSeoInput(seo_in)) => seo_result = 1000

\* a clause and its messages agree: no points gives one of the messages,
\* full points gives none of them
ClauseAgrees(points, full, messages) ==
    /\ points = 0 => messages \cap suggestions # {}
    /\ points = full => messages \cap suggestions = {}

\* C15: on the same arguments, every rubric clause of calculate_seo_score
\* that awards no points has its message among the suggestions and every
\* clause that awards its full points has none (keyword clauses: for a
\* non-empty keyword list); the arguments are left as they were.
C15_SuggestionsMatchRubric ==
    (seo_outcome = "returned" /\ suggest_outcome = "returned") =>
        /\ ClauseAgrees(TitleLengthPoints(seo_in), 150,
                        {"title_short", "title_long"})
        /\ seo_in.n_keywords > 0 =>
              ClauseAgrees(TitleKeywordPoints(seo_in), 50, {"keyword_in_title"})
        /\ ClauseAgrees(MetaLengthPoints(seo_in), 100,
                        {"meta_short", "meta_long"})
        /\ ClauseAgrees(WordCountPoints(seo_in), 150, {"content_short"})
        /\ seo_in.n_keywords > 0 =>
              ClauseAgrees(DensityPoints(seo_in), 100,
                           {"density_low", "density_high"})
        /\ ClauseAgrees(StructurePoints(seo_in), 100, {"add_subtitles"})

(***************************************************************************)
(* Properties of calculate_similarity                                      *)
(***************************************************************************)
SimDone == sim_pc = "done"
BothTexts == sim_text1 # None /\ sim_text2 # None

\* the component's computation raised
ComponentFailed(component) ==
    \/ sim_fault = component
    \/ component = "tfidf" /\ TfidfCosine(sim_text1, sim_text2) < 0
NoFailure == BothTexts /\ \A c \in {"sequence", "tfidf", "phrase"} : ~ComponentFailed(c)

\* C17: when nothing fails, calculate_similarity returns
\* 0.3*sequence + 0.4*tfidf + 0.3*phrase, every component is in [0,1] and so
\* is the result.
C17_WeightedCombination ==
    (SimDone /\ NoFailure) =>
        /\ sim_result = sim_components.sequence * 3 + sim_components.tfidf * 4
                        + sim_components.phrase * 3
        /\ sim_components.sequence \in 0..1000
        /\ sim_components.tfidf \in 0..1000
        /\ sim_components.phrase \in 0..1000
        /\ sim_result \in 0..10000

C17_Witness ==
    /\ SimDone /\ NoFailure
    /\ sim_components.sequence > 0
    /\ sim_components.sequence # sim_components.tfidf
    /\ sim_components.phrase \notin {0, sim_components.sequence, sim_components.tfidf}

\* C18: calculate_similarity(T, T) = 1.0 for every text T.
C18_IdenticalTextsScoreOne ==
    (SimDone /\ BothTexts /\ sim_fault = "none" /\ sim_text1 = sim_text2) =>
        sim_result = 10000

\* C19: an exception inside one component makes that component 0 and the
\* others contribute what they measured; when the whole computation fails
\* the result is exactly 0.5; the call always returns.
C19_FailureIsolation ==
    SimDone =>
        /\ sim_outcome = "returned"
        /\ ~BothTexts => sim_result = 5000
        /\ BothTexts =>
              /\ \A c \in {"sequence", "tfidf", "phrase"} :
                    ComponentFailed(c) => sim_components[c] = 0
              /\ sim_result =
                      3 * (IF ComponentFailed("sequence") THEN 0
                           ELSE SequenceRatio(sim_text1, sim_text2))
                    + 4 * (IF ComponentFailed("tfidf") THEN 0
                           ELSE TfidfCosine(sim_text1, sim_text2))
                    + 3 * (IF ComponentFailed("phrase") THEN 0
                           ELSE _calculate_phrase_similarity(sim_text1, sim_text2, "none"))

\* the lexical component raised on its own (empty vocabulary) and the
\* sequence component still contributes its 0.3
C19_Witness ==
    /\ SimDone /\ BothTexts
    /\ sim_fault = "none"
    /\ ComponentFailed("tfidf")
    /\ sim_components.sequence = 1000
    /\ sim_result = 3000

SeasonalMonths == {1, 6, 10, 12}
SeasonalMatched == DOMAIN seasonal_keywords(rel_in.month) \cap rel_in.found

\* C21: the seasonal sub-score is 0.5 when the month of the published date
\* has no entry in the seasonal table, 0.4 when it has entries but none of
\* its keywords occurs in the text, and otherwise the average weight of the
\* month's keywords that occur in the text, at most 1.0.
C21_SeasonalScoreCases ==
    (rel_pc = "done" /\ ~RelevanceFails(rel_in)) =>
        IF rel_in.month \notin SeasonalMonths
        THEN rel_components.seasonal = 500
        ELSE IF SeasonalMatched = {}
        THEN rel_components.seasonal = 400
        ELSE /\ rel_components.seasonal * Cardinality(SeasonalMatched) =
                   SumWeights(seasonal_keywords(rel_in.month), SeasonalMatched)
             /\ rel_components.seasonal <= 1000

C21_Witness ==
    /\ rel_pc = "done"
    /\ ~RelevanceFails(rel_in)
    /\ rel_in.month = 12
    /\ SeasonalMatched = {"natal", "games natal"}
    /\ rel_components.seasonal = 875

\* C16: no scoring function raises: calculate_similarity,
\* calculate_relevance and calculate_seo_score return a number for every
\* input, malformed ones included.
C16_NoScoringFunctionRaises ==
    /\ sim_outcome # "raised"
    /\ rel_outcome # "raised"
    /\ seo_outcome # "raised"

(***************************************************************************)
(* Properties of the composite score                                       *)
(***************************************************************************)
\* in1 is pointwise no better than in2 (lower similarity is better)
NoBetter(in1, in2) ==
    /\ in1.relevance_score <= in2.relevance_score
    /\ in1.word_count <= in2.word_count
    /\ in1.seo_score <= in2.seo_score
    /\ in1.similarity_score >= in2.similarity_score

\* C7: _calculate_final_score is non-decreasing in relevance, word count,
\* SEO score and originality: of two calls, the one whose inputs are
\* pointwise no better never returns the larger value.
C7_Monotone ==
    (prev_out >= 0 /\ score_out >= 0) =>
        /\ NoBetter(prev_in, score_in) => prev_out <= score_out
        /\ NoBetter(score_in, prev_in) => score_out <= prev_out

C7_Witness ==
    /\ prev_out >= 0
    /\ NoBetter(prev_in, score_in)
    /\ prev_in.similarity_score > score_in.similarity_score
    /\ prev_in.relevance_score = score_in.relevance_score
    /\ prev_in.word_count = score_in.word_count
    /\ prev_in.seo_score = score_in.seo_score
    /\ prev_out < score_out

(***************************************************************************)
(* Properties of ContentGenerator                                          *)
(***************************************************************************)
\* C23: _process_scraped_item runs its stages in the order duplicate check,
\* relevance pre-filter, rewrite, originality gate, title/summary, SEO,
\* score, persist: rewrite_content is never invoked for an item whose
\* source_url already has an article or whose relevance is below
\* MIN_CONTENT_SCORE, the title/summary request is only made for an original
\* rewrite, and every persisted article comes from a rewrite with
\* similarity strictly below REWRITE_SIMILARITY_THRESHOLD.
C23_StagesInOrder ==
    /\ \A c \in rewrite_calls :
          ~c.has_article /\ c.relevance_score >= MIN_CONTENT_SCORE
    /\ \A r \in Runs : g_pc[r] = "title" => g_rewrite[r].is_original
    /\ \A i \in 1..Len(article_table) :
          article_table[i].similarity_score < REWRITE_SIMILARITY_THRESHOLD

C23_Witness ==
    /\ rewrite_calls # {}
    /\ article_table # <<>>
    /\ rejected = {"existing", "low_relevance", "not_original"}

C25_CapabilitySuccessGivesRecord ==
    (rewriterApi = "original_content" /\ relevanceApi = "async" /\ capability_ok)
        => /\ processed # NoArticle
           /\ processed.relevance_score = ItemTable[processed.item].relevance

\* process_batch_featured was called with mix_categories true
MixCategories == b_op = "featured" /\ inner_limit # b_limit

IsPrefix(s, t) == Len(s) <= Len(t) /\ SubSeq(t, 1, Len(s)) = s

\* C27: in process_batch_articles and process_batch_news a failure while
\* scraping or processing one source or item does not abort the batch and
\* removes nothing already accepted: while the operation runs the accepted
\* list only grows and the sources are taken one after the other, and the
\* operation returns only when every source has had its turn, with the
\* accepted items (cut to the limit) as its result.
C27_FailureIsolation ==
    [][ (b_op \in {"articles", "news"} /\ b_pc \in {"source", "item"}) =>
          /\ b_pc' \in {"source", "item"} =>
                /\ IsPrefix(all_articles, all_articles')
                /\ src_left' \in {src_left, src_left - 1}
          /\ b_pc' = "done" =>
                /\ src_left = 0
                /\ items_left = 0
                /\ Len(returned') = Min(b_limit, Len(all_articles))
                /\ \A i \in 1..Len(returned') :
                      \E j \in 1..Len(all_articles) : returned'[i] = all_articles[j]
      ]_vars

\* an item has been accepted, the item processed last failed, and a source
\* is still to come
C27_Witness ==
    /\ b_op \in {"articles", "news"}
    /\ b_pc = "source"
    /\ src_left >= 1
    /\ all_articles # <<>>
    /\ processed = NoArticle
    /\ ~capability_ok

(***************************************************************************)
(* Further properties of ContentGenerator                                  *)
(***************************************************************************)
\* C28: an article is persisted with status 'published' exactly when its
\* final_score is >= 0.8 and 'draft' otherwise; published_at is set exactly
\* when status is 'published'; featured implies published, and that still
\* holds after any number of update_trending_scores runs.
C28_StatusFollowsScore ==
    /\ [](\A i \in 1..Len(article_table) :
            /\ (article_table[i].published_at # None)
                  <=> (article_table[i].status = "published")
            /\ article_table[i].featured => article_table[i].status = "published")
    /\ [][ Len(article_table') = Len(article_table) + 1 =>
            LET a == article_table'[Len(article_table')] IN
            /\ a.status \in {"published", "draft"}
            /\ (a.status = "published") <=> (a.final_score >= 80000) ]_vars

\* update_trending_scores has lowered one published article below 0.8 and
\* another article is featured
C28_Witness ==
    \E i, j \in 1..Len(article_table) :
        /\ i # j
        /\ article_table[i].status = "published"
        /\ article_table[i].final_score < 80000
        /\ article_table[j].featured

\* C29: over any sequence of _scrape_source outcomes of a source, a successful
\* scrape resets scraping_errors to 0, a failed one increments it by one,
\* the counter is the number of failures since the last success, the source
\* is inactive exactly when the counter has reached 5, and
\* generate_content_from_sources selects no inactive source.
C29_ErrorCounter ==
    /\ \A id \in SourceIds :
          /\ s_last[id].outcome = "ok" => sources[id].scraping_errors = 0
          /\ s_last[id].outcome = "failed" =>
                sources[id].scraping_errors = s_last[id].before + 1
          /\ sources[id].scraping_errors = s_streak[id]
          /\ ~sources[id].is_active <=> sources[id].scraping_errors >= 5
    /\ \A sel \in s_selected : sel.is_active

\* one source was deactivated by its fifth failure in a row, the other was
\* reset by a success after failures, and a later run selected only the
\* latter
C29_Witness ==
    \E id, other \in SourceIds :
        /\ ~sources[id].is_active
        /\ s_last[id] = [outcome |-> "failed", before |-> 4]
        /\ s_last[other].outcome = "ok"
        /\ s_last[other].before > 0
        /\ s_selected = {[id |-> other, is_active |-> TRUE]}

\* C30: at most one article is ever persisted per source_url, also when two
\* runs' _process_scraped_item executions for the same URL interleave at
\* their await points between the existence check and the commit.
C30_OneArticlePerUrl ==
    \A i, j \in 1..Len(article_table) :
        i # j => article_table[i].source_url # article_table[j].source_url

====
